---- MODULE Spec2Model ----
(***************************************************************************)
(* A model of the proof-of-work node of blockchain_network_simulation:     *)
(* the chain and block model (blockchain/mod.rs, blockchain/pow.rs), the   *)
(* mining stream (blockchain/miner.rs) and the node router                 *)
(* (pow/src/blockchain/node.rs).                                           *)
(***************************************************************************)
EXTENDS Integers, Sequences, FiniteSets, TLC

VARIABLES
    chain,      \* PowNode.chain of every node
    peers,      \* the `peers` vector of every node's routing future
    state,      \* MiningState of every node's mining stream
    updater,    \* the channel behind every node's MiningStateUpdater
    mined,      \* the item the mining stream has yielded and for_each has not yet handled
    conn,       \* conn[<<n, p>>]: "new" while node n's NodeEvent::Peer for p is pending, then "listening";
                \* "ended" when n's connection stream ended without the connection
    chan,       \* chan[<<a, b>>]: chains sent by a on its sender to b and not yet received
    rx_closed,  \* rx_closed[<<a, b>>]: b has dropped the receiver of the channel from a
    ticks,      \* number of interval ticks the miners have handled so far
    call        \* the last call of a function of the blockchain module made on its own, with its result

vars == <<chain, peers, state, updater, mined, conn, chan, rx_closed, ticks, call>>

-----------------------------------------------------------------------------
(* Bounds of the model *)

\* Ticks of the mining intervals in one behaviour, over all nodes.
MaxTicks == 2

\* SHA256_OUTPUT_LEN, scaled down: the width in bytes of the model's digests
\* and difficulty targets.
DigestLen == 4

\* Updates a caller may have queued for the lone mining stream at a time.
MaxQueue == 2

\* Nonces, counted from Nonce::new, a caller of the blockchain module builds blocks with.
MaxAttempts == 4

-----------------------------------------------------------------------------
(* Program constants *)

U8_MAX == 255

SHA256_OUTPUT_LEN == DigestLen

DIFFICULTY_BYTES_LEN == SHA256_OUTPUT_LEN

NONCE_LEN == 8

\* Option::None where a chain may be absent (a record, so that it compares with chains).
None == [none |-> TRUE]

\* Err(()) of Chain::expand.
Err == [err |-> TRUE]

\* The outcome of a byte-array operation that panicked: no array is produced.
Panic == << >>

\* No function has been called on its own yet.
NoCall == [op |-> "none"]

\* The nodes of the simulated network (node_id of each PowNode).
Nodes == {1, 2, 3}

\* The connections the network hands to the nodes: a line 1 - 2 - 3.
Links == {<<1, 2>>, <<2, 3>>}

Neighbours(n) == {p \in Nodes : <<n, p>> \in Links \/ <<p, n>> \in Links}

Pairs == {<<a, b>> \in Nodes \X Nodes : b \in Neighbours(a)}

\* The nodes whose mining_attempt_delay is finite: node 3 never attempts a block.
Miners == {1, 2}

\* The channels <<a, b>> whose receiver b may drop while the network runs.
Droppable == {<<2, 3>>}

\* The channel <<a, b>> on which the peer a may have sent any chain at all.
Untrusted == <<3, 2>>

\* The node whose mining stream is also driven on its own, by any caller.
LoneMiner == 1

\* The node_id of a miner outside the modelled network.
ForeignId == 9

-----------------------------------------------------------------------------
(* blockchain/pow.rs *)

Bytes(len, b) == [i \in 1..len |-> b]

\* Nonce::new
Nonce_new == Bytes(NONCE_LEN, 0)

RECURSIVE IncrementFrom(_, _)
\* The loop of Nonce::increment from index_to_increment = i (1-based here):
\* bytes equal to U8_MAX are zeroed while the index walks to the front;
\* walking past the first byte is an index underflow, which panics.
IncrementFrom(nonce, i) ==
    IF i = 0 THEN Panic
    ELSE IF nonce[i] = U8_MAX THEN IncrementFrom([nonce EXCEPT ![i] = 0], i - 1)
    ELSE [nonce EXCEPT ![i] = nonce[i] + 1]

\* Nonce::increment
Nonce_increment(nonce) == IncrementFrom(nonce, Len(nonce))

\* Difficulty::min_difficulty
Difficulty_min_difficulty == Bytes(SHA256_OUTPUT_LEN, U8_MAX)

RECURSIVE IndexToSplit(_, _)
\* The first index >= i holding a non-zero byte; past the end when there is none.
IndexToSplit(d, i) ==
    IF i > Len(d) THEN i
    ELSE IF d[i] = 0 THEN IndexToSplit(d, i + 1)
    ELSE i

\* Difficulty::divide_inner_by_two; indexing past the array panics.
Difficulty_divide_inner_by_two(d) ==
    LET index_to_split == IndexToSplit(d, 1) IN
    IF index_to_split > Len(d) THEN Panic
    ELSE LET halved == [d EXCEPT ![index_to_split] = d[index_to_split] \div 2] IN
         IF halved[index_to_split] = 0
         THEN IF index_to_split + 1 > Len(d) THEN Panic
              ELSE [halved EXCEPT ![index_to_split + 1] = U8_MAX \div 2]
         ELSE halved

\* Difficulty::increase
Difficulty_increase(d) == Difficulty_divide_inner_by_two(d)

\* The big-endian bytes of a 32-bit node_id, as Hash::new lays them out.
NodeIdBytes(node_id) ==
    << (node_id \div 16777216) % 256, (node_id \div 65536) % 256,
       (node_id \div 256) % 256, node_id % 256 >>

\* Folds the bytes of data into one number, every byte weighted by its
\* position.
Mix(data) ==
    LET acc[i \in 0..Len(data)] ==
            IF i = 0 THEN 0
            ELSE (acc[i - 1] + (data[i] + 1) * (i * i + 3 * i + 1)) % 8191
    IN acc[Len(data)]

\* digest::digest(&SHA256, data): a deterministic function of the hashed
\* bytes that spreads over the output bytes.
DigestOfMix(m) ==
    [i \in 1..SHA256_OUTPUT_LEN |-> ((m + i) * (m + 13 * i) + (m \div 7)) % 256]

Digest(data) ==
    CHOOSE digest \in {DigestOfMix((Mix(bytes) + 161) % 8191) : bytes \in {data}} : TRUE

\* Hash::new: nonce || node_id || previous_hash || difficulty, hashed.
Hash_new(node_id, nonce, difficulty, previous_hash) ==
    Digest(nonce \o NodeIdBytes(node_id) \o previous_hash \o difficulty)

RECURSIVE LessFrom(_, _, _)
\* The loop of less_than_u8 from index i: the first differing byte decides.
LessFrom(one, other, i) ==
    IF i > Len(one) THEN FALSE
    ELSE IF one[i] < other[i] THEN TRUE
    ELSE IF one[i] > other[i] THEN FALSE
    ELSE LessFrom(one, other, i + 1)

\* less_than_u8
less_than_u8(one, other) == LessFrom(one, other, 1)

\* Hash::less_than
Hash_less_than(hash, difficulty) == less_than_u8(hash, difficulty)

-----------------------------------------------------------------------------
(* blockchain/mod.rs *)

\* Block::new
Block_new(node_id, nonce, previous_block_hash, difficulty) ==
    [ node_id |-> node_id,
      nonce |-> nonce,
      hash |-> Hash_new(node_id, nonce, difficulty, previous_block_hash),
      previous_block_hash |-> previous_block_hash ]

\* Block::genesis_block: the hash is taken over a zero previous hash and the
\* block then names its own hash as its previous hash.
Block_genesis_block(difficulty) ==
    LET hash == Hash_new(U8_MAX, Nonce_new, difficulty, Bytes(SHA256_OUTPUT_LEN, 0)) IN
    [ node_id |-> U8_MAX,
      nonce |-> Nonce_new,
      hash |-> hash,
      previous_block_hash |-> hash ]

\* Block::is_valid
Block_is_valid(block, difficulty) ==
    IF Hash_less_than(block.hash, difficulty)
    THEN Hash_new(block.node_id, block.nonce, difficulty, block.previous_block_hash)
            = block.hash
    ELSE FALSE

\* Chain::init_new
Chain_init_new(difficulty) ==
    [ head |-> Block_genesis_block(difficulty),
      tail |-> None,
      difficulty |-> difficulty,
      height |-> 0 ]

\* Chain::hashes_match
Chain_hashes_match(c, block) == c.head.hash = block.previous_block_hash

\* Chain::expand giving the new chain the height of the old one.
Chain_expand_SameHeight(c, block) ==
    IF Chain_hashes_match(c, block) /\ Block_is_valid(block, c.difficulty)
    THEN [ head |-> block,
           difficulty |-> c.difficulty,
           height |-> c.height,
           tail |-> c ]
    ELSE Err

\* Chain::expand without the check of the link to the head.
Chain_expand_Unlinked(c, block) ==
    IF Block_is_valid(block, c.difficulty)
    THEN [ head |-> block,
           difficulty |-> c.difficulty,
           height |-> c.height + 1,
           tail |-> c ]
    ELSE Err

\* Chain::expand
Chain_expand(c, block) ==
    IF Chain_hashes_match(c, block) /\ Block_is_valid(block, c.difficulty)
    THEN [ head |-> block,
           difficulty |-> c.difficulty,
           height |-> c.height + 1,
           tail |-> c ]
    ELSE Err

\* Chain::height
Chain_height(c) == c.height

\* Chain::stronger_than counting an equal height as stronger.
Chain_stronger_than_OrEqual(a, b) == Chain_height(a) >= Chain_height(b)

\* Chain::stronger_than
Chain_stronger_than(a, b) == Chain_height(a) > Chain_height(b)

\* Chain::validate: the head block's proof of work and its link to the tail;
\* a genesis chain has nothing to check.
Chain_validate(c) ==
    IF c.tail = None THEN TRUE
    ELSE /\ Block_is_valid(c.head, c.difficulty)
         /\ Chain_hashes_match(c.tail, c.head)

\* The difficulty the network runs at: the minimum, increased once.
NetworkDifficulty == Difficulty_increase(Difficulty_min_difficulty)

\* The genesis chain every PowNode::new is given.
genesis_chain == Chain_init_new(NetworkDifficulty)

-----------------------------------------------------------------------------
(* blockchain/miner.rs *)

\* MiningState::new
MiningState_new(node_id, c) == [chain |-> c, nonce |-> Nonce_new, node_id |-> node_id]

\* mine emitting the candidate chain whether or not the block is valid.
mine_Unchecked(st) ==
    LET nonce == Nonce_increment(st.nonce)
        block == Block_new(st.node_id, nonce, st.chain.head.hash, st.chain.difficulty)
    IN  [state |-> [st EXCEPT !.nonce = nonce],
         result |-> [head |-> block, difficulty |-> st.chain.difficulty,
                     height |-> st.chain.height + 1, tail |-> st.chain]]

\* mine taking the chain it has just mined as its new target, with a new nonce.
mine_AdoptsOwn(st) ==
    LET nonce == Nonce_increment(st.nonce)
        head_hash == st.chain.head.hash
        block == Block_new(st.node_id, nonce, head_hash, st.chain.difficulty)
        result == Chain_expand(st.chain, block)
    IN  [state |-> IF result # Err
                   THEN [st EXCEPT !.chain = result, !.nonce = Nonce_new]
                   ELSE [st EXCEPT !.nonce = nonce],
         result |-> result]

\* mine: the state after the attempt and its MiningResult (Err for Failure).
mine(st) ==
    LET nonce == Nonce_increment(st.nonce)
        head_hash == st.chain.head.hash
        block == Block_new(st.node_id, nonce, head_hash, st.chain.difficulty)
    IN  [state |-> [st EXCEPT !.nonce = nonce], result |-> Chain_expand(st.chain, block)]

\* The Some(chain_update) branch with <= in place of <.
UpdateState_NonStrict(st, chain_update) ==
    IF Chain_height(st.chain) <= Chain_height(chain_update)
    THEN [st EXCEPT !.chain = chain_update, !.nonce = Nonce_new]
    ELSE st

\* The Some(chain_update) branch of the closure of mining_stream.
UpdateState(st, chain_update) ==
    IF Chain_height(st.chain) < Chain_height(chain_update)
    THEN [st EXCEPT !.chain = chain_update, !.nonce = Nonce_new]
    ELSE st

\* MiningStateUpdater::mine_new_chain: the chain is queued for the mining stream.
mine_new_chain(queue, new_chain) == Append(queue, new_chain)

-----------------------------------------------------------------------------
(* pow/src/blockchain/node.rs *)

\* The Peer that peer_stream builds for a connection.
Peer_new(sender) ==
    [sender |-> sender, last_known_chain |-> genesis_chain, is_closed |-> FALSE]

\* UnboundedSender::unbounded_send on the channel from a to b succeeds while
\* the receiver is alive.
SendOk(a, b) == ~rx_closed[<<a, b>>]

RECURSIVE PropagateToPeers_Ungated(_, _, _, _, _)
\* The loop of propagate without the stronger_than gate.
PropagateToPeers_Ungated(n, c, ps, ch, i) ==
    IF i > Len(ps) THEN [peers |-> ps, chan |-> ch]
    ELSE LET peer == ps[i] IN
         IF SendOk(n, peer.sender)
         THEN PropagateToPeers_Ungated(n, c,
                  [ps EXCEPT ![i].last_known_chain = c],
                  [ch EXCEPT ![<<n, peer.sender>>] = Append(@, c)],
                  i + 1)
         ELSE PropagateToPeers_Ungated(n, c, [ps EXCEPT ![i].is_closed = TRUE], ch, i + 1)

RECURSIVE PropagateToPeers_AbortOnFailure(_, _, _, _, _)
\* The loop of propagate giving up at the first failed send.
PropagateToPeers_AbortOnFailure(n, c, ps, ch, i) ==
    IF i > Len(ps) THEN [peers |-> ps, chan |-> ch]
    ELSE LET peer == ps[i] IN
         IF Chain_stronger_than(c, peer.last_known_chain)
         THEN IF SendOk(n, peer.sender)
              THEN PropagateToPeers_AbortOnFailure(n, c,
                       [ps EXCEPT ![i].last_known_chain = c],
                       [ch EXCEPT ![<<n, peer.sender>>] = Append(@, c)],
                       i + 1)
              ELSE [peers |-> [ps EXCEPT ![i].is_closed = TRUE], chan |-> ch]
         ELSE PropagateToPeers_AbortOnFailure(n, c, ps, ch, i + 1)

RECURSIVE PropagateToPeers_FirstOnly(_, _, _, _, _)
\* The loop of propagate stopping after the first successful send.
PropagateToPeers_FirstOnly(n, c, ps, ch, i) ==
    IF i > Len(ps) THEN [peers |-> ps, chan |-> ch]
    ELSE LET peer == ps[i] IN
         IF Chain_stronger_than(c, peer.last_known_chain)
         THEN IF SendOk(n, peer.sender)
              THEN [peers |-> [ps EXCEPT ![i].last_known_chain = c],
                    chan |-> [ch EXCEPT ![<<n, peer.sender>>] = Append(@, c)]]
              ELSE PropagateToPeers_FirstOnly(n, c, [ps EXCEPT ![i].is_closed = TRUE], ch, i + 1)
         ELSE PropagateToPeers_FirstOnly(n, c, ps, ch, i + 1)

RECURSIVE PropagateToPeers(_, _, _, _, _)
\* peers.iter_mut().for_each(..) of propagate, from the i-th peer on: the
\* peers and the channels after the loop.
PropagateToPeers(n, c, ps, ch, i) ==
    IF i > Len(ps) THEN [peers |-> ps, chan |-> ch]
    ELSE LET peer == ps[i] IN
         IF Chain_stronger_than(c, peer.last_known_chain)
         THEN IF SendOk(n, peer.sender)
              THEN PropagateToPeers(n, c,
                       [ps EXCEPT ![i].last_known_chain = c],
                       [ch EXCEPT ![<<n, peer.sender>>] = Append(@, c)],
                       i + 1)
              ELSE PropagateToPeers(n, c, [ps EXCEPT ![i].is_closed = TRUE], ch, i + 1)
         ELSE PropagateToPeers(n, c, ps, ch, i + 1)

\* peers.retain(|peer| !peer.is_closed)
Retain(ps) == SelectSeq(ps, LAMBDA peer : ~peer.is_closed)

\* propagate adopting every chain of another height.
Adopts_AnyOtherHeight(n, c) == Chain_height(c) # Chain_height(chain[n])

\* propagate adopting a chain of equal height too.
Adopts_OnTies(n, c) == Chain_height(c) >= Chain_height(chain[n])

\* Whether propagate adopts the chain as the node's own.
Adopts(n, c) == Chain_stronger_than(c, chain[n])

\* The channels once node n has taken the event it handles: a chain from
\* the peer src, or from its own mining stream when src is n.
Received(ch, n, src) ==
    IF src = n THEN ch ELSE [ch EXCEPT ![<<src, n>>] = Tail(@)]

\* propagate notifying the miner of every chain it is called for, adopted or not.
propagate_NotifyAlways(n, c, src) ==
    LET after == PropagateToPeers(n, c, peers[n], chan, 1) IN
    /\ peers' = [peers EXCEPT ![n] = Retain(after.peers)]
    /\ chan' = Received(after.chan, n, src)
    /\ updater' = [updater EXCEPT ![n] = mine_new_chain(@, c)]
    /\ IF Adopts(n, c)
       THEN chain' = [chain EXCEPT ![n] = c]
       ELSE UNCHANGED chain

\* PowNode::propagate, called for a chain that came from src.
propagate(n, c, src) ==
    LET after == PropagateToPeers(n, c, peers[n], chan, 1) IN
    /\ peers' = [peers EXCEPT ![n] = Retain(after.peers)]
    /\ chan' = Received(after.chan, n, src)
    /\ IF Adopts(n, c)
       THEN /\ updater' = [updater EXCEPT ![n] = mine_new_chain(@, c)]
            /\ chain' = [chain EXCEPT ![n] = c]
       ELSE UNCHANGED <<updater, chain>>

RECURSIVE SendEffects(_, _, _, _)
\* What the loop of propagate does, peer after peer from the i-th on: a send
\* to a peer the chain is stronger for, or the marking of the peer as closed
\* when the send fails.
SendEffects(n, c, ps, i) ==
    IF i > Len(ps) THEN << >>
    ELSE LET peer == ps[i] IN
         IF Chain_stronger_than(c, peer.last_known_chain)
         THEN << [op |-> IF SendOk(n, peer.sender) THEN "send" ELSE "close",
                  peer |-> peer.sender] >> \o SendEffects(n, c, ps, i + 1)
         ELSE SendEffects(n, c, ps, i + 1)

\* propagate notifying the miner and taking the chain before it serves the peers.
propagate_effects_MinerFirst(n, c) ==
    (IF Adopts(n, c)
     THEN << [op |-> "mine_new_chain", peer |-> n], [op |-> "set_chain", peer |-> n] >>
     ELSE << >>)
        \o SendEffects(n, c, peers[n], 1) \o << [op |-> "retain", peer |-> n] >>

\* What one call of propagate does, in the order of its statements: the
\* sends, the removal of the closed peers, then the notification of the miner
\* and the assignment of self.chain.
propagate_effects(n, c) ==
    SendEffects(n, c, peers[n], 1) \o << [op |-> "retain", peer |-> n] >>
        \o (IF Adopts(n, c)
            THEN << [op |-> "mine_new_chain", peer |-> n], [op |-> "set_chain", peer |-> n] >>
            ELSE << >>)

\* The routing future polls for the next event only when the last item has
\* been handled.
Idle(n) == mined[n] = None

\* Node b drops the receiver of its connection with a.
CloseReceiver(a, b) ==
    /\ <<a, b>> \in Droppable
    /\ ~rx_closed[<<a, b>>]
    /\ rx_closed' = [rx_closed EXCEPT ![<<a, b>>] = TRUE]
    /\ chan' = [chan EXCEPT ![<<a, b>>] = << >>]
    /\ UNCHANGED <<chain, peers, state, updater, mined, conn, ticks, call>>

\* The NodeEvent::Peer arm of run pushing the peer whatever the send returns.
NewPeer_AlwaysInsert(n, p) ==
    /\ Idle(n)
    /\ conn[<<n, p>>] = "new"
    /\ conn' = [conn EXCEPT ![<<n, p>>] = "listening"]
    /\ chan' = [chan EXCEPT ![<<n, p>>] = IF SendOk(n, p) THEN Append(@, chain[n]) ELSE @]
    /\ peers' = [peers EXCEPT ![n] = Append(@, Peer_new(p))]
    /\ UNCHANGED <<chain, state, updater, mined, rx_closed, ticks, call>>

\* The NodeEvent::Peer arm of run.
NewPeer(n, p) ==
    /\ Idle(n)
    /\ conn[<<n, p>>] = "new"
    /\ conn' = [conn EXCEPT ![<<n, p>>] = "listening"]
    /\ IF SendOk(n, p)
       THEN /\ chan' = [chan EXCEPT ![<<n, p>>] = Append(@, chain[n])]
            /\ peers' = [peers EXCEPT ![n] = Append(@, Peer_new(p))]
       ELSE UNCHANGED <<chan, peers>>
    /\ UNCHANGED <<chain, state, updater, mined, rx_closed, ticks, call>>

\* The NodeEvent::ChainRemoteUpdate arm of run with validate left out.
RemoteChain_Unvalidated(n, p) ==
    /\ Idle(n)
    /\ conn[<<n, p>>] = "listening"
    /\ ~rx_closed[<<p, n>>]
    /\ chan[<<p, n>>] # << >>
    /\ propagate(n, Head(chan[<<p, n>>]), p)
    /\ UNCHANGED <<state, mined, conn, rx_closed, ticks, call>>

\* The NodeEvent::ChainRemoteUpdate arm of run on a connection whose receiver
\* is polled without waiting for the Peer event of the connection.
RemoteChain_BeforePeer(n, p) ==
    /\ Idle(n)
    /\ ~rx_closed[<<p, n>>]
    /\ chan[<<p, n>>] # << >>
    /\ IF Chain_validate(Head(chan[<<p, n>>]))
       THEN propagate(n, Head(chan[<<p, n>>]), p)
       ELSE /\ chan' = Received(chan, n, p)
            /\ UNCHANGED <<peers, updater, chain>>
    /\ UNCHANGED <<state, mined, conn, rx_closed, ticks, call>>

\* The NodeEvent::ChainRemoteUpdate arm of run, on the next chain the
\* receiver of the connection with p yields.
RemoteChain(n, p) ==
    /\ Idle(n)
    /\ conn[<<n, p>>] = "listening"
    /\ ~rx_closed[<<p, n>>]
    /\ chan[<<p, n>>] # << >>
    /\ IF Chain_validate(Head(chan[<<p, n>>]))
       THEN propagate(n, Head(chan[<<p, n>>]), p)
       ELSE /\ chan' = Received(chan, n, p)
            /\ UNCHANGED <<peers, updater, chain>>
    /\ UNCHANGED <<state, mined, conn, rx_closed, ticks, call>>

\* The NodeEvent::MinedChain arm of run.
MinedChain(n) ==
    /\ mined[n] # None
    /\ propagate(n, mined[n], n)
    /\ mined' = [mined EXCEPT ![n] = None]
    /\ UNCHANGED <<state, conn, rx_closed, ticks, call>>

\* The None branch of the closure of mining_stream: one tick of the interval.
Tick(n) ==
    /\ n \in Miners
    /\ Idle(n)
    /\ ticks < MaxTicks
    /\ LET m == mine(state[n]) IN
       /\ state' = [state EXCEPT ![n] = m.state]
       /\ IF m.result # Err
          THEN mined' = [mined EXCEPT ![n] = m.result]
          ELSE UNCHANGED mined
    /\ ticks' = ticks + 1
    /\ UNCHANGED <<chain, peers, updater, conn, chan, rx_closed, call>>

\* The Some branch of the closure of mining_stream: one preemption update.
MinerUpdate(n) ==
    /\ Idle(n)
    /\ updater[n] # << >>
    /\ state' = [state EXCEPT ![n] = UpdateState(@, Head(updater[n]))]
    /\ updater' = [updater EXCEPT ![n] = Tail(@)]
    /\ UNCHANGED <<chain, peers, mined, conn, chan, rx_closed, ticks, call>>

-----------------------------------------------------------------------------
(* Chains from outside the modelled nodes *)

RECURSIVE MineUntilSuccess(_)
\* The first chain a miner in state st emits.
MineUntilSuccess(st) ==
    LET m == mine(st) IN
    IF m.result # Err THEN m.result ELSE MineUntilSuccess(m.state)

\* The chains a foreign miner builds on genesis.
ForeignChain1 == MineUntilSuccess(MiningState_new(ForeignId, genesis_chain))

ForeignChain2 == MineUntilSuccess(MiningState_new(ForeignId, ForeignChain1))

\* The chain with one bit of its head block's hash flipped.
Mutated(c) ==
    [c EXCEPT !.head.hash[1] = IF @ % 2 = 0 THEN @ + 1 ELSE @ - 1]

\* A chain whose head does not link to its tail.
Mislinked == [ForeignChain2 EXCEPT !.tail = genesis_chain]

\* What an untrusted peer may send.
SentByUntrusted ==
    {ForeignChain1, Mutated(ForeignChain2), Mislinked}

\* The channels when the nodes start: the untrusted peer may have sent a chain.
InitialChannels ==
    { [pr \in Pairs |-> IF pr = Untrusted THEN q ELSE << >>] :
        q \in {<< >>} \cup {<<c>> : c \in SentByUntrusted} }

\* What a caller of MiningStateUpdater::mine_new_chain may pass.
UpdatesByCaller == {genesis_chain, ForeignChain1, ForeignChain2}

\* A caller of the lone mining stream notifies it of the chain c.
Preempt(n, c) ==
    /\ n = LoneMiner
    /\ Len(updater[n]) < MaxQueue
    /\ updater' = [updater EXCEPT ![n] = mine_new_chain(@, c)]
    /\ UNCHANGED <<chain, peers, state, mined, conn, chan, rx_closed, ticks, call>>

\* The consumer of the lone mining stream takes the chain it yielded.
Consume(n) ==
    /\ n = LoneMiner
    /\ mined[n] # None
    /\ mined' = [mined EXCEPT ![n] = None]
    /\ UNCHANGED <<chain, peers, state, updater, conn, chan, rx_closed, ticks, call>>

-----------------------------------------------------------------------------
(* Specifications *)

Init ==
    /\ chain = [n \in Nodes |-> genesis_chain]
    /\ peers = [n \in Nodes |-> << >>]
    /\ state = [n \in Nodes |-> MiningState_new(n, genesis_chain)]
    /\ updater = [n \in Nodes |-> << >>]
    /\ mined = [n \in Nodes |-> None]
    /\ conn = [pr \in Pairs |-> "new"]
    /\ chan = [pr \in Pairs |-> << >>]
    /\ rx_closed = [pr \in Pairs |-> FALSE]
    /\ ticks = 0
    /\ call = NoCall

Next ==
    \/ \E pr \in Pairs : CloseReceiver(pr[1], pr[2])
    \/ \E pr \in Pairs : NewPeer(pr[1], pr[2])
    \/ \E pr \in Pairs : RemoteChain(pr[1], pr[2])
    \/ \E n \in Nodes : MinedChain(n)
    \/ \E n \in Nodes : Tick(n)
    \/ \E n \in Nodes : MinerUpdate(n)

\* The network of honest nodes.
Spec == Init /\ [][Next]_vars

\* The network with an untrusted peer.
InitUntrusted ==
    /\ chain = [n \in Nodes |-> genesis_chain]
    /\ peers = [n \in Nodes |-> << >>]
    /\ state = [n \in Nodes |-> MiningState_new(n, genesis_chain)]
    /\ updater = [n \in Nodes |-> << >>]
    /\ mined = [n \in Nodes |-> None]
    /\ conn = [pr \in Pairs |-> "new"]
    /\ chan \in InitialChannels
    /\ rx_closed = [pr \in Pairs |-> FALSE]
    /\ ticks = 0
    /\ call = NoCall

AdvSpec == InitUntrusted /\ [][Next]_vars

\* The network whose receivers stay alive, every pending event being handled
\* in the end.
NextReliable ==
    \/ \E pr \in Pairs : NewPeer(pr[1], pr[2])
    \/ \E pr \in Pairs : RemoteChain(pr[1], pr[2])
    \/ \E n \in Nodes : MinedChain(n)
    \/ \E n \in Nodes : Tick(n)
    \/ \E n \in Nodes : MinerUpdate(n)

\* The handlers of the routing futures and of the mining streams.
Handlers ==
    \/ \E pr \in Pairs : NewPeer(pr[1], pr[2])
    \/ \E pr \in Pairs : RemoteChain(pr[1], pr[2])
    \/ \E n \in Nodes : MinedChain(n)
    \/ \E n \in Nodes : MinerUpdate(n)

\* The executor does not leave ready events unhandled for ever.
Fairness == WF_vars(Handlers)

LiveSpec == Init /\ [][NextReliable]_vars /\ Fairness

\* The connection stream of node n ends having yielded no connection: none of
\* its links comes up, at either end, and it has no peer receive stream.
CloseInbound(n) ==
    /\ \A p \in Neighbours(n) : conn[<<n, p>>] = "new" /\ conn[<<p, n>>] = "new"
    /\ conn' = [pr \in Pairs |-> IF pr[1] = n \/ pr[2] = n THEN "ended" ELSE conn[pr]]
    /\ UNCHANGED <<chain, peers, state, updater, mined, chan, rx_closed, ticks, call>>

\* The connection stream of node n and every peer receive stream of it have ended.
InboundClosed(n) == \A p \in Neighbours(n) : conn[<<n, p>>] = "ended"

\* peer_stream, the flattened stream of the connections' events, has ended.
PeerStreamEnded(n) == InboundClosed(n)

\* interval_stream: Interval yields an instant every period and never ends.
IntervalStreamEnded(n) == FALSE

\* mining_stream selects over the updater's receiver and the interval: it
\* ends when both have ended, the receiver having nothing queued.
MiningStreamEnded(n) == updater[n] = << >> /\ IntervalStreamEnded(n)

\* routing_future: for_each over peer_stream.select(mining_stream) completes
\* when the selected stream ends, which is when both of its streams have ended.
RunCompleted(n) == PeerStreamEnded(n) /\ MiningStreamEnded(n)

\* The network in which connection streams may end, ready events being
\* handled in the end.
NextShutdown ==
    \/ \E n \in Nodes : CloseInbound(n)
    \/ \E pr \in Pairs : NewPeer(pr[1], pr[2])
    \/ \E pr \in Pairs : RemoteChain(pr[1], pr[2])
    \/ \E n \in Nodes : MinedChain(n)
    \/ \E n \in Nodes : Tick(n)
    \/ \E n \in Nodes : MinerUpdate(n)

ShutdownSpec == Init /\ [][NextShutdown]_vars /\ WF_vars(Handlers)

\* One mining stream on its own: any caller preempts it, any consumer reads it.
NextMiner ==
    \/ \E c \in UpdatesByCaller : Preempt(LoneMiner, c)
    \/ MinerUpdate(LoneMiner)
    \/ Tick(LoneMiner)
    \/ Consume(LoneMiner)

MinerSpec == Init /\ [][NextMiner]_vars

-----------------------------------------------------------------------------
(* The functions of the blockchain module, called on their own *)

\* Every variable of the nodes: a call of a function on its own changes none.
node_vars == <<chain, peers, state, updater, mined, conn, chan, rx_closed, ticks>>

RECURSIVE NonceAfter(_)
\* The nonce after k calls of Nonce::increment on Nonce::new.
NonceAfter(k) == IF k = 0 THEN Nonce_new ELSE Nonce_increment(NonceAfter(k - 1))

\* The chains a caller hands to Chain::expand.
ExpandChains == {genesis_chain, ForeignChain1, ForeignChain2}

\* The block with one bit of its hash flipped.
Tampered(block) ==
    [block EXCEPT !.hash[1] = IF @ % 2 = 0 THEN @ + 1 ELSE @ - 1]

\* The blocks a caller hands to Chain::expand: built on the head of any of the
\* chains with any of the first nonces, at the network's difficulty or at the
\* minimum one, as they are or tampered with.
ExpandBlocks ==
    LET built == { Block_new(node_id, NonceAfter(k), c.head.hash, difficulty) :
                     node_id \in {LoneMiner, ForeignId}, k \in 1..MaxAttempts,
                     c \in ExpandChains,
                     difficulty \in {NetworkDifficulty, Difficulty_min_difficulty} }
    IN  built \cup {Tampered(block) : block \in built}

\* Chain::expand(&chain, block), called on its own.
Call_expand(c, block) ==
    /\ call' = [op |-> "expand", chain |-> c, block |-> block,
                result |-> Chain_expand(c, block)]
    /\ UNCHANGED node_vars

\* The chain the lone miner builds on genesis: as high as ForeignChain1, with
\* another head.
LoneChain1 == MineUntilSuccess(MiningState_new(LoneMiner, genesis_chain))

\* The chains a caller compares.
ComparedChains == {genesis_chain, LoneChain1, ForeignChain1, ForeignChain2}

\* a.stronger_than(&b) and b.stronger_than(&a), called on their own.
Call_stronger_than(a, b) ==
    /\ call' = [op |-> "stronger_than", a |-> a, b |-> b,
                result |-> Chain_stronger_than(a, b),
                converse |-> Chain_stronger_than(b, a)]
    /\ UNCHANGED node_vars

\* The nonces a caller increments: k trailing bytes at U8_MAX below a byte x,
\* the bytes above it all y; with k = NONCE_LEN every byte is at U8_MAX.
NonceInputs ==
    { [i \in 1..NONCE_LEN |->
          IF i > NONCE_LEN - k THEN U8_MAX ELSE IF i = NONCE_LEN - k THEN x ELSE y] :
        k \in 0..NONCE_LEN, x \in {0, 1, U8_MAX - 1}, y \in {0, U8_MAX} }

\* nonce.increment(), called on its own.
Call_increment(nonce) ==
    /\ call' = [op |-> "increment", nonce |-> nonce, result |-> Nonce_increment(nonce)]
    /\ UNCHANGED node_vars

\* difficulty.increase(), called on the difficulty the last call of it left,
\* or on Difficulty::min_difficulty() when there was none.
Call_increase ==
    LET difficulty == IF call.op = "increase" THEN call.result
                      ELSE Difficulty_min_difficulty
    IN  /\ difficulty # Panic
        /\ call' = [op |-> "increase", before |-> difficulty,
                    result |-> Difficulty_increase(difficulty)]
        /\ UNCHANGED node_vars

\* The hash values a caller compares with a difficulty: k leading bytes at
\* U8_MAX, then a byte x, the bytes below it all y; with k = SHA256_OUTPUT_LEN
\* every byte is at U8_MAX.
HashInputs ==
    { [i \in 1..SHA256_OUTPUT_LEN |->
          IF i <= k THEN U8_MAX ELSE IF i = k + 1 THEN x ELSE y] :
        k \in 0..SHA256_OUTPUT_LEN, x \in {0, 1, U8_MAX - 1}, y \in {0, U8_MAX} }

\* hash.less_than(&Difficulty::min_difficulty()), called on its own.
Call_less_than(hash) ==
    /\ call' = [op |-> "less_than", hash |-> hash,
                result |-> Hash_less_than(hash, Difficulty_min_difficulty)]
    /\ UNCHANGED node_vars

NextLib ==
    \/ Call_increase
    \/ \E hash \in HashInputs : Call_less_than(hash)
    \/ \E nonce \in NonceInputs : Call_increment(nonce)
    \/ \E c \in ExpandChains : \E block \in ExpandBlocks : Call_expand(c, block)
    \/ \E a \in ComparedChains : \E b \in ComparedChains : Call_stronger_than(a, b)

\* The functions of the blockchain module under any caller.
LibSpec == Init /\ [][NextLib]_vars

-----------------------------------------------------------------------------
(* Vocabulary of the properties *)

\* Whether node n's peer set holds a record for the peer p.
HasPeer(ps, p) == \E i \in 1..Len(ps) : ps[i].sender = p

\* The record of the peer p in the peer set ps.
PeerRecord(ps, p) == ps[CHOOSE i \in 1..Len(ps) : ps[i].sender = p]

\* The chain c is a natural fork of node n's current chain.
NaturalFork(n, c) ==
    /\ Chain_height(c) = Chain_height(chain[n])
    /\ c.head.hash # chain[n].head.hash

\* This step is propagate(c) at node n: a mined chain, or a remote one that validated.
PropagateStep(n, c) ==
    \/ /\ mined[n] = c
       /\ MinedChain(n)
    \/ \E p \in Neighbours(n) :
          /\ chan[<<p, n>>] # << >>
          /\ Head(chan[<<p, n>>]) = c
          /\ Chain_validate(c)
          /\ RemoteChain(n, p)

\* The chains node n may be asked to propagate in the current state.
Propagable(n) ==
    (IF mined[n] # None THEN {mined[n]} ELSE {})
        \cup {Head(chan[<<p, n>>]) : p \in {q \in Neighbours(n) : chan[<<q, n>>] # << >>}}

-----------------------------------------------------------------------------
(* C1 *)

\* C1: from one state to the next, under NewPeer, MinedChain and RemoteChain
\* events alike, the height of no node's current chain decreases.
C1_HeightNeverDecreases ==
    [][\A n \in Nodes : Chain_height(chain'[n]) >= Chain_height(chain[n])]_vars

\* A node has propagated a chain weaker than its own current chain: a peer
\* record holds it while the node's chain is taller.
C1_Witness ==
    \E n \in Nodes : \E i \in 1..Len(peers[n]) :
        /\ Chain_height(peers[n][i].last_known_chain) > 0
        /\ Chain_height(peers[n][i].last_known_chain) < Chain_height(chain[n])

-----------------------------------------------------------------------------
(* C2 *)

\* C2: a NewPeer event whose initial send succeeds inserts the peer with
\* last_known_chain equal to the node's current chain, the chain just sent.
C2_NewPeerKnowsCurrentChain ==
    [][\A pr \in Pairs :
         (NewPeer(pr[1], pr[2]) /\ SendOk(pr[1], pr[2]))
            => /\ HasPeer(peers'[pr[1]], pr[2])
               /\ PeerRecord(peers'[pr[1]], pr[2]).last_known_chain = chain[pr[1]]]_vars

-----------------------------------------------------------------------------
(* C3 *)

\* C3: a RemoteChain event whose chain fails validate changes no current
\* chain and no peer record, sends nothing to any peer and nothing to the miner.
C3_InvalidChainChangesNothing ==
    [][\A pr \in Pairs :
         ( /\ chan[<<pr[2], pr[1]>>] # << >>
           /\ ~Chain_validate(Head(chan[<<pr[2], pr[1]>>]))
           /\ RemoteChain(pr[1], pr[2]) )
            => /\ chain' = chain
               /\ peers' = peers
               /\ updater' = updater
               /\ state' = state
               /\ \A qr \in Pairs : qr # <<pr[2], pr[1]>> => chan'[qr] = chan[qr]]_vars

\* Node 2, which has peers and listens to the untrusted peer, is about to
\* handle a chain of it that fails validate and is taller than its own.
C3_Witness ==
    /\ conn[<<Untrusted[2], Untrusted[1]>>] = "listening"
    /\ Len(peers[Untrusted[2]]) = 2
    /\ chan[Untrusted] # << >>
    /\ ~Chain_validate(Head(chan[Untrusted]))
    /\ Chain_stronger_than(Head(chan[Untrusted]), chain[Untrusted[2]])
    /\ ENABLED RemoteChain(Untrusted[2], Untrusted[1])

-----------------------------------------------------------------------------
(* C4 *)

\* C4: a node's current chain is only ever replaced by a strictly taller
\* one, and propagate of a chain of equal height with another head hash keeps
\* the current chain and sends nothing to the miner.
C4_EqualHeightNeverReplaces ==
    [][\A n \in Nodes :
         /\ chain'[n] # chain[n] => Chain_height(chain'[n]) > Chain_height(chain[n])
         /\ \A c \in Propagable(n) :
               (NaturalFork(n, c) /\ PropagateStep(n, c))
                  => /\ chain'[n] = chain[n]
                     /\ updater'[n] = updater[n]]_vars

\* A node has propagated a natural fork and kept its first-seen chain: a peer
\* record holds a chain as tall as the node's own with another head.
C4_Witness ==
    \E n \in Nodes : \E i \in 1..Len(peers[n]) :
        /\ Chain_height(chain[n]) > 0
        /\ NaturalFork(n, peers[n][i].last_known_chain)

-----------------------------------------------------------------------------
(* C5 *)

\* Every chain held anywhere in the system.
AllChains ==
    {chain[n] : n \in Nodes}
        \cup {state[n].chain : n \in Nodes}
        \cup {mined[n] : n \in {m \in Nodes : mined[m] # None}}
        \cup UNION {{peers[n][i].last_known_chain : i \in 1..Len(peers[n])} : n \in Nodes}
        \cup UNION {{updater[n][i] : i \in 1..Len(updater[n])} : n \in Nodes}
        \cup UNION {{chan[pr][i] : i \in 1..Len(chan[pr])} : pr \in Pairs}

\* Node n holds a chain strictly taller than every other chain in the system.
Tallest(n) ==
    \A c \in AllChains : c # chain[n] => Chain_height(c) < Chain_height(chain[n])

\* Every node's current chain is node n's.
ConvergedOn(n) == \A m \in Nodes : chain[m] = chain[n]

\* Some node holds a chain of height above 0 that is strictly taller than
\* every other chain in the system.
SomeTallest == \E n \in Nodes : Tallest(n) /\ Chain_height(chain[n]) > 0

\* Every node's current chain is that strictly tallest chain.
AllConverged == \E n \in Nodes : Tallest(n) /\ ConvergedOn(n)

\* C5: with receivers alive and ready events handled in the end, once a
\* node holds a chain strictly taller than every other chain, either a miner
\* makes a further attempt or every node's current chain becomes that chain.
C5_Convergence ==
    \A k \in 0..MaxTicks :
        (SomeTallest /\ ticks = k) ~> (AllConverged \/ ticks > k)

\* All three nodes of the line hold the same chain of height 2.
C5_Witness ==
    /\ ConvergedOn(1)
    /\ Chain_height(chain[1]) = 2
    /\ Tallest(1)

-----------------------------------------------------------------------------
(* C6 *)

\* C6: the last_known_chain of a peer record never gets lower, and it changes
\* only to a strictly taller chain that was sent to that peer in the same step.
C6_LastKnownOnlyAdvances ==
    [][\A pr \in Pairs :
         (HasPeer(peers[pr[1]], pr[2]) /\ HasPeer(peers'[pr[1]], pr[2]))
            => LET old == PeerRecord(peers[pr[1]], pr[2]).last_known_chain
                   new == PeerRecord(peers'[pr[1]], pr[2]).last_known_chain
               IN  /\ Chain_height(new) >= Chain_height(old)
                   /\ new # old
                        => /\ Chain_height(new) > Chain_height(old)
                           /\ SendOk(pr[1], pr[2])
                           /\ chan'[pr] = Append(chan[pr], new)]_vars

\* A peer record has advanced twice: it holds a chain of height 2 whose tail
\* the node had sent to the peer before.
C6_Witness ==
    \E pr \in Pairs :
        /\ HasPeer(peers[pr[1]], pr[2])
        /\ Chain_height(PeerRecord(peers[pr[1]], pr[2]).last_known_chain) = 2
        /\ Len(chan[pr]) >= 2
        /\ Chain_height(chan[pr][Len(chan[pr]) - 1]) = 1

-----------------------------------------------------------------------------
(* C7 *)

\* C7: in one propagate, every peer the chain is stronger for either gets the
\* chain on its channel and stays in the peer set, or, its send failing, is
\* absent from the peer set after the event; the peers the chain is not
\* stronger for stay as they are.
C7_FailedPeerRemovedOthersServed ==
    [][\A n \in Nodes : \A c \in Propagable(n) :
         PropagateStep(n, c)
            => \A i \in 1..Len(peers[n]) :
                  LET peer == peers[n][i] IN
                  IF Chain_stronger_than(c, peer.last_known_chain)
                  THEN IF SendOk(n, peer.sender)
                       THEN /\ chan'[<<n, peer.sender>>] = Append(chan[<<n, peer.sender>>], c)
                            /\ HasPeer(peers'[n], peer.sender)
                            /\ PeerRecord(peers'[n], peer.sender).last_known_chain = c
                       ELSE ~HasPeer(peers'[n], peer.sender)
                  ELSE /\ HasPeer(peers'[n], peer.sender)
                       /\ PeerRecord(peers'[n], peer.sender) = peer]_vars

\* Node 3 had received a chain from node 2 and then dropped its receiver;
\* node 2 has since propagated a taller chain, lost the peer 3 and served the peer 1.
C7_Witness ==
    /\ rx_closed[<<2, 3>>]
    /\ Chain_height(chain[3]) = 1
    /\ Chain_height(chain[2]) = 2
    /\ ~HasPeer(peers[2], 3)
    /\ HasPeer(peers[2], 1)
    /\ PeerRecord(peers[2], 1).last_known_chain = chain[2]

-----------------------------------------------------------------------------
(* C8 *)

\* C8: a NewPeer event whose initial send fails inserts no peer and leaves the
\* current chains and the peer records as they were; the peer is not inserted
\* later either.
C8_FailedNewPeerNotInserted ==
    [][\A pr \in Pairs :
         /\ (NewPeer(pr[1], pr[2]) /\ ~SendOk(pr[1], pr[2]))
               => /\ ~HasPeer(peers'[pr[1]], pr[2])
                  /\ peers' = peers
                  /\ chain' = chain
                  /\ chan' = chan
         /\ (conn[pr] = "listening" /\ ~HasPeer(peers[pr[1]], pr[2]))
               => ~HasPeer(peers'[pr[1]], pr[2])]_vars

\* Node 2, which has adopted a mined chain and holds the peer 1, is about to
\* handle the NewPeer event of a peer whose receiver is gone.
C8_Witness ==
    /\ conn[<<2, 3>>] = "new"
    /\ rx_closed[<<2, 3>>]
    /\ HasPeer(peers[2], 1)
    /\ Chain_height(chain[2]) > 0
    /\ ENABLED NewPeer(2, 3)

-----------------------------------------------------------------------------
(* C9 *)

\* C9: a preemption update replaces target_chain and resets the nonce to zero
\* when it is strictly taller than the target, and leaves both unchanged otherwise.
C9_PreemptIffStrictlyTaller ==
    [][\A n \in Nodes :
         (updater[n] # << >> /\ MinerUpdate(n))
            => LET update == Head(updater[n]) IN
               IF Chain_height(update) > Chain_height(state[n].chain)
               THEN /\ state'[n].chain = update
                    /\ state'[n].nonce = Nonce_new
               ELSE /\ state'[n].chain = state[n].chain
                    /\ state'[n].nonce = state[n].nonce]_vars

\* The lone miner, preempted onto a foreign chain and having attempted on it,
\* is delivered an update of the same height.
C9_Witness ==
    /\ state[LoneMiner].chain = ForeignChain1
    /\ state[LoneMiner].nonce # Nonce_new
    /\ updater[LoneMiner] # << >>
    /\ Chain_height(Head(updater[LoneMiner])) = Chain_height(ForeignChain1)
    /\ ENABLED MinerUpdate(LoneMiner)

-----------------------------------------------------------------------------
(* C10 *)

\* The block a tick of node n's miner tries in the current state.
Candidate(n) ==
    Block_new(state[n].node_id, Nonce_increment(state[n].nonce),
              state[n].chain.head.hash, state[n].chain.difficulty)

\* C10: a chain the miner has emitted is one block taller than the miner's
\* target and has the target as its tail; a tick whose candidate block fails
\* extend emits nothing, and no tick changes the target.
C10_EmitsTargetPlusOne ==
    [][\A n \in Nodes :
         /\ mined'[n] # None
               => /\ Chain_height(mined'[n]) = Chain_height(state'[n].chain) + 1
                  /\ mined'[n].tail = state'[n].chain
         /\ Tick(n)
               => /\ state'[n].chain = state[n].chain
                  /\ (~Chain_hashes_match(state[n].chain, Candidate(n))
                        \/ ~Block_is_valid(Candidate(n), state[n].chain.difficulty))
                        => mined'[n] = None
                  /\ mined'[n] # None => mined'[n].head = Candidate(n)]_vars

\* A miner has emitted a chain on its second attempt, the first having failed.
C10_Witness ==
    \E n \in Nodes :
        /\ mined[n] # None
        /\ state[n].nonce = Nonce_increment(Nonce_increment(Nonce_new))
        /\ ~Block_is_valid(
               Block_new(n, Nonce_increment(Nonce_new), state[n].chain.head.hash,
                         state[n].chain.difficulty),
               state[n].chain.difficulty)

-----------------------------------------------------------------------------
(* C11 *)

\* C11: Chain::expand returns a chain exactly when the block names the head
\* of the given chain as its previous block and is valid at the chain's
\* difficulty; the chain returned has the block as head, the given chain as
\* tail, its difficulty and its height plus one. The given chain is borrowed
\* and the call yields nothing but its result.
C11_ExpandIffLinkedAndValid ==
    call.op = "expand" =>
        LET c == call.chain
            block == call.block
            result == call.result
        IN  /\ (result # Err)
                  <=> /\ block.previous_block_hash = c.head.hash
                      /\ Block_is_valid(block, c.difficulty)
            /\ result # Err
                  => /\ result.height = c.height + 1
                     /\ result.tail = c
                     /\ result.difficulty = c.difficulty
                     /\ result.head = block

\* A chain of height 1 has been expanded, and the block given was valid and
\* linked to its head.
C11_Witness ==
    /\ call.op = "expand"
    /\ call.chain.height = 1
    /\ call.result # Err
    /\ call.result.height = 2

-----------------------------------------------------------------------------
(* C12 *)

RECURSIVE WellFormed(_)
\* The chain c is well formed down to genesis: the chain without a tail has
\* height 0, and every other link is one higher than its tail, names the
\* tail's head as its previous block and has the tail's difficulty.
WellFormed(c) ==
    IF c.tail = None THEN c.height = 0
    ELSE /\ c.height = c.tail.height + 1
         /\ c.head.previous_block_hash = c.tail.head.hash
         /\ c.difficulty = c.tail.difficulty
         /\ WellFormed(c.tail)

RECURSIVE BlockCount(_)
\* The number of blocks of the chain c.
BlockCount(c) == IF c.tail = None THEN 1 ELSE 1 + BlockCount(c.tail)

\* C12: every chain held anywhere by the nodes (current chains, peer records,
\* miners' targets, mined chains, queued updates, messages in the channels) is
\* well formed down to genesis and has one block more than its height.
C12_ChainsWellFormed ==
    \A c \in AllChains :
        /\ WellFormed(c)
        /\ BlockCount(c) = Chain_height(c) + 1

\* Chains of height 2 are held as a current chain, as a peer record, as a
\* miner's target and as a message in a channel.
C12_Witness ==
    /\ \E n \in Nodes : Chain_height(chain[n]) = 2
    /\ \E n \in Nodes : \E i \in 1..Len(peers[n]) :
          Chain_height(peers[n][i].last_known_chain) = 2
    /\ \E n \in Nodes : Chain_height(state[n].chain) = 2
    /\ \E pr \in Pairs : \E i \in 1..Len(chan[pr]) : Chain_height(chan[pr][i]) = 2

-----------------------------------------------------------------------------
(* C13 *)

\* C13: a.stronger_than(b) is true exactly when a is higher than b; no chain
\* is stronger than itself, two chains are never each stronger than the
\* other, and of two chains of equal height neither is stronger.
C13_StrongerIffHigher ==
    call.op = "stronger_than" =>
        /\ call.result <=> call.a.height > call.b.height
        /\ call.a = call.b => ~call.result
        /\ ~(call.result /\ call.converse)
        /\ call.a.height = call.b.height => (~call.result /\ ~call.converse)

\* Two chains of height 1 with different heads have been compared.
C13_Witness ==
    /\ call.op = "stronger_than"
    /\ call.a.height = 1
    /\ call.b.height = 1
    /\ call.a.head.hash # call.b.head.hash
    /\ ~call.result

-----------------------------------------------------------------------------
(* C14 *)

\* The nonce plus one as a big-endian number of NONCE_LEN bytes, wrapping
\* around: a byte changes when all the bytes after it are at U8_MAX.
PlusOneWrapping(nonce) ==
    [i \in 1..NONCE_LEN |->
        IF \A j \in (i + 1)..NONCE_LEN : nonce[j] = U8_MAX
        THEN (nonce[i] + 1) % (U8_MAX + 1)
        ELSE nonce[i]]

\* C14: Nonce::increment yields the nonce plus one as a big-endian number with
\* carry, for every nonce, the nonce of all U8_MAX bytes wrapping to all zero
\* without a panic.
C14_IncrementCarriesAndWraps ==
    call.op = "increment" =>
        /\ call.result # Panic
        /\ call.result = PlusOneWrapping(call.nonce)

-----------------------------------------------------------------------------
(* C15 *)

\* The byte array one is lower than other, both read as big-endian numbers.
LowerBigEndian(one, other) ==
    \E i \in 1..Len(one) :
        /\ one[i] < other[i]
        /\ \A j \in 1..(i - 1) : one[j] = other[j]

\* C15: every call of Difficulty::increase in a succession of calls that
\* starts from the minimum difficulty completes, and leaves a target that is
\* lower, as a big-endian number, than the one it was called on.
C15_IncreaseCompletesAndLowers ==
    call.op = "increase" =>
        /\ call.result # Panic
        /\ LowerBigEndian(call.result, call.before)

-----------------------------------------------------------------------------
(* C16 *)

\* C16: at the minimum difficulty Hash::less_than is true of every hash value.
C16_MinDifficultyAdmitsEveryHash ==
    call.op = "less_than" => call.result

-----------------------------------------------------------------------------
(* C17 *)

\* C17: once the connection stream and every peer receive stream of a node
\* have ended, the future returned by run eventually completes.
C17_ClosedInboundCompletes ==
    \A n \in Nodes : InboundClosed(n) ~> RunCompleted(n)

-----------------------------------------------------------------------------
(* C18 *)

\* The effect e is one of the peer-side effects of propagate.
PeerSide(e) == e.op \in {"send", "close", "retain"}

\* The effect e is one of the effects of adopting the chain.
AdoptionSide(e) == e.op \in {"mine_new_chain", "set_chain"}

-----------------------------------------------------------------------------
(* C19 *)

\* In this step node n takes a chain off the channel from p: the channel gets
\* shorter while its receiver stays in place.
Receives(n, p) ==
    /\ Len(chan'[<<p, n>>]) < Len(chan[<<p, n>>])
    /\ rx_closed'[<<p, n>>] = rx_closed[<<p, n>>]

\* C19: node n handles a chain received on its connection with p only after
\* it has handled the NewPeer event of that connection, and it handles those
\* chains in the order p sent them: a send puts one chain at the end of the
\* channel, a receive takes the one at the front, and that chain is the one
\* the step adopts or sends on.
C19_PeerFirstThenFifo ==
    [][\A n \in Nodes : \A p \in Neighbours(n) :
         /\ Receives(n, p)
               => /\ conn[<<n, p>>] = "listening"
                  /\ chan'[<<p, n>>] = Tail(chan[<<p, n>>])
                  /\ chain'[n] # chain[n] => chain'[n] = Head(chan[<<p, n>>])
                  /\ \A q \in Neighbours(n) :
                        Len(chan'[<<n, q>>]) > Len(chan[<<n, q>>])
                           => chan'[<<n, q>>] = Append(chan[<<n, q>>], Head(chan[<<p, n>>]))
         /\ Len(chan'[<<p, n>>]) > Len(chan[<<p, n>>])
               => \E c \in AllChains' : chan'[<<p, n>>] = Append(chan[<<p, n>>], c)]_vars

\* Node 2 has handled the NewPeer event of its connection with node 1, two
\* different chains sent by node 1 wait on it, and node 2 is about to handle
\* the first, which it adopts.
C19_Witness ==
    /\ conn[<<2, 1>>] = "listening"
    /\ Len(chan[<<1, 2>>]) >= 2
    /\ chan[<<1, 2>>][1] # chan[<<1, 2>>][2]
    /\ Adopts(2, Head(chan[<<1, 2>>]))
    /\ ENABLED RemoteChain(2, 1)

-----------------------------------------------------------------------------
(* C20 *)

\* C20: the chains a node has sent on one peer's channel have strictly
\* increasing heights. The chains waiting on a channel are the last ones sent
\* on it, in the order they were sent, so each of them is taller than those
\* before it.
C20_SentHeightsIncrease ==
    \A pr \in Pairs : \A i \in 1..Len(chan[pr]) : \A j \in 1..Len(chan[pr]) :
        i < j => Chain_height(chan[pr][i]) < Chain_height(chan[pr][j])

-----------------------------------------------------------------------------
(* C21 *)

\* The chain the miner of node n works on.
target_chain(n) == state[n].chain

\* C21: the miner of a node starts on the chain its router starts with; in
\* every state its target_chain is no taller than the router's current chain;
\* the target changes only to the chain at the front of the preemption
\* channel, and a chain enters that channel only as the chain the router
\* holds at that moment, so the target is always a chain the router has held.
C21_TargetBehindRouter ==
    /\ \A n \in Nodes : target_chain(n) = chain[n]
    /\ [](\A n \in Nodes : Chain_height(target_chain(n)) <= Chain_height(chain[n]))
    /\ [][\A n \in Nodes :
            /\ target_chain(n)' # target_chain(n)
                  => /\ updater[n] # << >>
                     /\ target_chain(n)' = Head(updater[n])
                     /\ updater'[n] = Tail(updater[n])
            /\ Len(updater'[n]) > Len(updater[n])
                  => updater'[n] = Append(updater[n], chain'[n])
            /\ Len(updater'[n]) < Len(updater[n])
                  => updater'[n] = Tail(updater[n])]_vars

\* The miner of a node has taken a preemption update and its router has
\* since moved on to a taller chain.
C21_Witness ==
    \E n \in Nodes :
        /\ target_chain(n) # genesis_chain
        /\ target_chain(n) # chain[n]
        /\ Chain_height(target_chain(n)) < Chain_height(chain[n])

-----------------------------------------------------------------------------
(* C22 *)

\* This step is a tick of the interval of some mining stream.
Ticked == ticks' # ticks

\* C22: a tick leaves the target_chain of every miner as it is and resets no
\* nonce: the miner that attempts goes to the next nonce, and when the
\* attempt succeeds the chain it emits extends the old target, which stays
\* the target. The target changes only when a preemption update taller than
\* it is delivered, and the nonce starts again only then.
C22_TickKeepsTarget ==
    [][\A n \in Nodes :
         /\ Ticked
               => /\ target_chain(n)' = target_chain(n)
                  /\ state'[n].nonce # state[n].nonce
                        => /\ state'[n].nonce = Nonce_increment(state[n].nonce)
                           /\ state'[n].nonce # Nonce_new
                  /\ mined'[n] # mined[n]
                        => /\ mined'[n] # None
                           /\ mined'[n].tail = target_chain(n)
                           /\ mined'[n].head.nonce = state'[n].nonce
                           /\ target_chain(n)' # mined'[n]
         /\ \/ target_chain(n)' # target_chain(n)
            \/ state'[n].nonce = Nonce_new /\ state[n].nonce # Nonce_new
               => /\ ~Ticked
                  /\ updater[n] # << >>
                  /\ target_chain(n)' = Head(updater[n])
                  /\ Chain_height(Head(updater[n])) > Chain_height(target_chain(n))
                  /\ state'[n].nonce = Nonce_new]_vars

\* The miner of a node has mined a second chain on the target it had already
\* mined the node's current chain on.
C22_Witness ==
    \E n \in Miners :
        /\ mined[n] # None
        /\ mined[n].tail = target_chain(n)
        /\ chain[n] # genesis_chain
        /\ chain[n].tail = target_chain(n)
        /\ chain[n].head.node_id = n
        /\ state[n].nonce = mined[n].head.nonce

-----------------------------------------------------------------------------
(* C23 *)

\* The chains waiting on the preemption channel of node n, from the miner's
\* target on, have strictly increasing heights.
PreemptionsIncrease(n) ==
    LET pending == <<target_chain(n)>> \o updater[n] IN
    \A i \in 1..Len(pending) : \A j \in 1..Len(pending) :
        i < j => Chain_height(pending[i]) < Chain_height(pending[j])

\* C23: in a node with its own miner, every chain the router sends on the
\* preemption channel is taller than the chains it sent before, so that an
\* update is taller than the miner's target when it is delivered and the
\* miner takes it as its new target with a new nonce.
C23_PreemptionsNeverIgnored ==
    /\ [](\A n \in Nodes : PreemptionsIncrease(n))
    /\ [][\A n \in Nodes :
            /\ Len(updater'[n]) > Len(updater[n])
                  => /\ Chain_height(chain'[n]) > Chain_height(chain[n])
                     /\ updater'[n] = Append(updater[n], chain'[n])
            /\ Len(updater'[n]) < Len(updater[n])
                  => /\ Chain_height(Head(updater[n])) > Chain_height(target_chain(n))
                     /\ state'[n] = [state[n] EXCEPT !.chain = Head(updater[n]),
                                                     !.nonce = Nonce_new]]_vars

\* Two updates wait on the preemption channel of a node and its miner is
\* about to take the first.
C23_Witness ==
    \E n \in Nodes :
        /\ Len(updater[n]) >= 2
        /\ ENABLED MinerUpdate(n)

====
